---- MODULE Spec2Model ----
(***************************************************************************)
(* run_backtest_2024.py: the credential gate, the per-asset loop of        *)
(* run_full_backtest, the summary and the artifact write.                  *)
(*                                                                         *)
(* Encoding of Python values.  A dict is a function whose DOMAIN is the    *)
(* set of keys it holds, so dict.get(k, d) is Get(d, k, default).  A value *)
(* that may be None is a sequence of length at most one: PyNone is None    *)
(* and Val(v) is the value v (None, [] and {} would otherwise be one TLA+   *)
(* value, the empty function).  R-multiples are integers (the code adds     *)
(* floats; the model keeps the sums exact), a quotient is the pair of its  *)
(* numerator and denominator.                                              *)
(*                                                                         *)
(* Of an all_results entry the model keeps asset, trades, win_rate,        *)
(* total_r and full_result.  return_pct, max_dd_pct and the four exit      *)
(* counts are copied from the result and only printed or summed.           *)
(***************************************************************************)
EXTENDS Integers, Sequences, FiniteSets, TLC

\* ------------------------------------------------------------- bounds
\* the longest universe
MaxAssets == 2

\* the slice all_results[:10] of the "Top 10 Performers" table
TopK == 10

Assets == {"EURUSD", "XAUUSD"}
EnvValues == {"", "key"}

\* ------------------------------------------------------ Python values
PyNone == <<>>
Val(v) == <<v>>
EmptyDict == [k \in {} |-> 0]

Get(d, k, dflt) == IF k \in DOMAIN d THEN d[k] ELSE dflt

\* os.getenv(name): None when the variable is not set
Getenv(env, name) == IF name \in DOMAIN env THEN Val(env[name]) ELSE PyNone

\* bool(x) of a string or None
TruthyStr(x) == x # PyNone /\ x[1] # ""

\* bool(x) of a list or None
TruthyList(x) == x # PyNone /\ x[1] # <<>>

SeqsUpTo(S, n) == UNION {[1..k -> S] : k \in 0..n}

\* --------------------------------------------------- the environment
Environs ==
    UNION {[ks -> EnvValues] : ks \in SUBSET {"OANDA_API_KEY", "OANDA_ACCOUNT_ID"}}

\* the trade lists of a result; a trade is a dict that may or may not hold
\* 'rr': no trade, a win, a loss and a trade without rr, two wins
TradeLists ==
    {<<>>, <<[rr |-> 2]>>, <<[rr |-> -1], EmptyDict>>, <<[rr |-> 2], [rr |-> 2]>>}

TotalTradesField == {0, 1, 2}
WinRateField == {Val(50), PyNone}
TradesField == {PyNone} \cup {Val(l) : l \in TradeLists}

\* the dicts holding key k with a value of vals, or not holding it
Field(k, vals) == {EmptyDict} \cup {[x \in {k} |-> v] : v \in vals}

Merge(a, b) ==
    [k \in DOMAIN a \cup DOMAIN b |-> IF k \in DOMAIN a THEN a[k] ELSE b[k]]

\* the results run_backtest may return: each of the three keys may be absent
Results ==
    {Merge(Merge(a, b), c) : a \in Field("total_trades", TotalTradesField),
                             b \in Field("win_rate", WinRateField),
                             c \in Field("trades", TradesField)}

\* what one call run_backtest(asset, period) does: it raises, or it returns
\* None or a result
Outcomes ==
    {[kind |-> "raise"]}
        \cup {[kind |-> "return", value |-> v] : v \in {PyNone} \cup {Val(r) : r \in Results}}

\* ------------------------------------------------------------- state
VARIABLES
    environ,            \* os.environ: the two credentials, each set or not
    all_assets,         \* FOREX_PAIRS + METALS + INDICES + CRYPTO_ASSETS
    pc,                 \* where the process is
    exit_status,        \* PyNone while it runs, then Val(status)
    i,                  \* the loop's index of the next asset, from 1
    calls,              \* how many times run_backtest was invoked in this run
    sim_log,            \* per asset, what its run_backtest call did
    console,            \* per asset, the kind of line printed for it
    all_results,
    total_trades_all,
    total_wins_all,
    total_r_all,
    summary,            \* PyNone, or Val of the combined metrics
    returned,           \* PyNone, or Val of what run_full_backtest returned
    artifact,           \* backtest_results_2024.json: PyNone or Val(document)
    writes,             \* how many times this run wrote the artifact
    collected,          \* all_results as the loop left it, before the sort
    ref                 \* the same loop over the universe without the assets
                        \* whose run_backtest call raises

vars ==
    <<environ, all_assets, pc, exit_status, i, calls, sim_log, console,
      all_results, total_trades_all, total_wins_all, total_r_all, summary,
      returned, artifact, writes, collected, ref>>

\* ------------------------------------------------- check_credentials
\* the gate with one credential enough
CheckCredentialsEitherSuffices(api_key, account_id) ==
    TruthyStr(api_key) \/ TruthyStr(account_id)

\* lines 28-41: False when either value is None or empty
check_credentials(api_key, account_id) ==
    ~(~TruthyStr(api_key) \/ ~TruthyStr(account_id))

\* ------------------------------------------------ the per-asset body
RECURSIVE SumRRAbsentAsOne(_)
\* the sum with t.get('rr', 1)
SumRRAbsentAsOne(trades) ==
    IF trades = <<>> THEN 0
    ELSE Get(Head(trades), "rr", 1) + SumRRAbsentAsOne(Tail(trades))

RECURSIVE SumRR(_)
\* line 93: sum(t.get('rr', 0) for t in trades)
SumRR(trades) ==
    IF trades = <<>> THEN 0
    ELSE Get(Head(trades), "rr", 0) + SumRR(Tail(trades))

RECURSIVE CountWins(_)
\* line 110: sum(1 for t in trades if t.get('rr', 0) > 0)
CountWins(trades) ==
    IF trades = <<>> THEN 0
    ELSE (IF Get(Head(trades), "rr", 0) > 0 THEN 1 ELSE 0) + CountWins(Tail(trades))

\* the test with >= for >
HasTradesOrNone(total_trades) == total_trades >= 0

\* line 89
HasTrades(total_trades) == total_trades > 0

\* the accumulators of the loop, as one record
Acc(res, tt, tw, tr) ==
    [all_results |-> res, total_trades_all |-> tt, total_wins_all |-> tw,
     total_r_all |-> tr]

Acc0 == Acc(<<>>, 0, 0, 0)

\* the except clause ends the loop instead of going on
ExceptHandlerBreaks(acc) == [acc |-> acc, line |-> "error", ctl |-> "break"]

\* lines 116-118: print ERROR and continue, with whatever the body did so far
ExceptHandler(acc) == [acc |-> acc, line |-> "error", ctl |-> "continue"]

\* lines 85-118, one iteration: the accumulators after it, the line printed
\* and how the loop goes on
TryBody(acc, asset, out) ==
    IF out.kind = "raise" THEN ExceptHandler(acc)            \* line 86 raises
    ELSE IF out.value = PyNone THEN ExceptHandler(acc)       \* line 88: None.get
    ELSE
      LET res == out.value[1]
          total_trades == Get(res, "total_trades", 0)
      IN IF ~HasTrades(total_trades) THEN [acc |-> acc, line |-> "no_trades", ctl |-> "next"]
         ELSE
           LET win_rate == Get(res, "win_rate", Val(0))
               trades == Get(res, "trades", Val(<<>>))
               total_r == IF TruthyList(trades) THEN SumRR(trades[1]) ELSE 0
               entry == [asset |-> asset, trades |-> total_trades,
                         win_rate |-> win_rate, total_r |-> total_r,
                         full_result |-> res]
               appended == Append(acc.all_results, entry)
               tt == acc.total_trades_all + total_trades
           IN IF trades = PyNone
              THEN \* line 110 raises: None is not iterable
                   ExceptHandler(Acc(appended, tt, acc.total_wins_all, acc.total_r_all))
              ELSE
                LET done == Acc(appended, tt,
                                acc.total_wins_all + CountWins(trades[1]),
                                acc.total_r_all + total_r)
                IN IF win_rate = PyNone
                   THEN ExceptHandler(done)   \* line 113 raises: None has no .1f
                   ELSE [acc |-> done, line |-> "trades", ctl |-> "next"]

\* ---------------------------------------------------- after the loop
Quot(n, d) == [num |-> n, den |-> d]

RECURSIVE InsertBeforeTies(_, _)
\* e goes before the entries of its own total_r
InsertBeforeTies(e, s) ==
    IF s = <<>> THEN <<e>>
    ELSE IF Head(s).total_r > e.total_r
         THEN <<Head(s)>> \o InsertBeforeTies(e, Tail(s))
         ELSE <<e>> \o s

RECURSIVE SortUnstable(_)
\* sorted by total_r descending, ties in reverse order
SortUnstable(s) ==
    IF s = <<>> THEN <<>>
    ELSE InsertBeforeTies(s[Len(s)], SortUnstable(SubSeq(s, 1, Len(s) - 1)))

RECURSIVE InsertByTotalR(_, _)
\* e goes after every entry whose total_r is at least its own
InsertByTotalR(e, s) ==
    IF s = <<>> THEN <<e>>
    ELSE IF Head(s).total_r >= e.total_r
         THEN <<Head(s)>> \o InsertByTotalR(e, Tail(s))
         ELSE <<e>> \o s

RECURSIVE SortByTotalR(_)
\* line 130: all_results.sort(key=lambda x: x['total_r'], reverse=True); the
\* sort of a list is stable, with reverse=True too
SortByTotalR(s) ==
    IF s = <<>> THEN <<>>
    ELSE InsertByTotalR(s[Len(s)], SortByTotalR(SubSeq(s, 1, Len(s) - 1)))

\* all_results[:10]
Top10(s) == SubSeq(s, 1, IF Len(s) < TopK THEN Len(s) ELSE TopK)

\* lines 133-134
CombinedMetrics(tt, tw, tr) ==
    [avg_win_rate |-> IF tt > 0 THEN Quot(tw * 100, tt) ELSE Quot(0, 1),
     avg_r |-> IF tt > 0 THEN Quot(tr, tt) ELSE Quot(0, 1)]

\* output_data with total_assets_tested counting the entries only
OutputDataCountsQualifying(metrics, ranked) ==
    [generated_at |-> "this run",
     summary |-> [total_assets_tested |-> Len(ranked),
                  assets_with_trades |-> Len(ranked),
                  total_trades |-> total_trades_all,
                  win_rate |-> metrics.avg_win_rate,
                  total_r |-> total_r_all,
                  avg_r_per_trade |-> metrics.avg_r],
     by_asset |-> [j \in 1..Len(ranked) |->
                      [asset |-> ranked[j].asset,
                       trades |-> ranked[j].trades,
                       win_rate |-> ranked[j].win_rate,
                       total_r |-> ranked[j].total_r]]]

\* lines 164-197: output_data, of this run
OutputData(metrics, ranked) ==
    [generated_at |-> "this run",
     summary |-> [total_assets_tested |-> Len(all_assets),
                  assets_with_trades |-> Len(ranked),
                  total_trades |-> total_trades_all,
                  win_rate |-> metrics.avg_win_rate,
                  total_r |-> total_r_all,
                  avg_r_per_trade |-> metrics.avg_r],
     by_asset |-> [j \in 1..Len(ranked) |->
                      [asset |-> ranked[j].asset,
                       trades |-> ranked[j].trades,
                       win_rate |-> ranked[j].win_rate,
                       total_r |-> ranked[j].total_r]]]

\* what an earlier run of the script left on disk; the code never reads it
EarlierArtifact ==
    [generated_at |-> "an earlier run",
     summary |-> [total_assets_tested |-> 1, assets_with_trades |-> 1,
                  total_trades |-> 1, win_rate |-> Quot(100, 1), total_r |-> 2,
                  avg_r_per_trade |-> Quot(2, 1)],
     by_asset |-> <<[asset |-> "EURUSD", trades |-> 1, win_rate |-> Val(50),
                     total_r |-> 2]>>]

\* ----------------------------------------------------------- actions
\* the universes: the code never looks into an asset's name, so the first
\* asset is EURUSD; an asset may be listed twice
Universes ==
    {u \in SeqsUpTo(Assets, MaxAssets) : u = <<>> \/ u[1] = "EURUSD"}

Init0 ==
    /\ environ \in Environs
    /\ all_assets \in Universes
    /\ pc = "start"
    /\ exit_status = PyNone
    /\ i = 1
    /\ calls = 0
    /\ sim_log = <<>>
    /\ console = <<>>
    /\ all_results = <<>>
    /\ total_trades_all = 0
    /\ total_wins_all = 0
    /\ total_r_all = 0
    /\ summary = PyNone
    /\ returned = PyNone
    /\ writes = 0
    /\ collected = <<>>
    /\ ref = Acc0
\* the process starts; an earlier run has left its artifact on disk
Init ==
    /\ Init0
    /\ artifact = Val(EarlierArtifact)

\* lines 44-45, and 60-81 when the gate passes
CheckCredentials ==
    /\ pc = "start"
    /\ IF check_credentials(Getenv(environ, "OANDA_API_KEY"),
                            Getenv(environ, "OANDA_ACCOUNT_ID"))
       THEN pc' = "loop" /\ exit_status' = exit_status
       ELSE pc' = "exited" /\ exit_status' = Val(1)
    /\ UNCHANGED <<environ, all_assets, i, calls, sim_log, console, all_results,
                   total_trades_all, total_wins_all, total_r_all, summary,
                   returned, artifact, writes, collected, ref>>

\* what the log keeps of a call: whether it raised, and the total_trades of
\* the result it returned
Reported(out) ==
    [raised |-> out.kind = "raise",
     total_trades |-> IF out.kind = "raise" \/ out.value = PyNone THEN PyNone
                      ELSE Val(Get(out.value[1], "total_trades", 0))]

\* lines 83-118: one iteration of the loop
Iterate ==
    /\ pc = "loop"
    /\ i <= Len(all_assets)
    /\ \E out \in Outcomes :
         LET step == TryBody(Acc(all_results, total_trades_all, total_wins_all,
                                 total_r_all), all_assets[i], out)
         IN /\ all_results' = step.acc.all_results
            /\ total_trades_all' = step.acc.total_trades_all
            /\ total_wins_all' = step.acc.total_wins_all
            /\ total_r_all' = step.acc.total_r_all
            /\ console' = Append(console, step.line)
            /\ sim_log' = Append(sim_log, Reported(out))
            /\ ref' = IF out.kind = "raise" THEN ref
                      ELSE TryBody(ref, all_assets[i], out).acc
            /\ i' = IF step.ctl = "break" THEN Len(all_assets) + 1 ELSE i + 1
    /\ calls' = calls + 1
    /\ UNCHANGED <<environ, all_assets, pc, exit_status, summary, returned,
                   artifact, writes, collected>>

\* without the early return: the guarded metrics are 0, then the exit
\* breakdown divides by total_trades_all = 0
NoDataFallsThrough ==
    /\ pc = "loop"
    /\ i > Len(all_assets)
    /\ all_results = <<>>
    /\ summary' = Val(CombinedMetrics(total_trades_all, total_wins_all, total_r_all))
    /\ pc' = "zero_division"
    /\ exit_status' = Val(1)
    /\ UNCHANGED <<environ, all_assets, i, calls, sim_log, console, all_results,
                   total_trades_all, total_wins_all, total_r_all, returned,
                   artifact, writes, collected, ref>>

\* lines 120-127: nothing collected; "No trades found" is printed and {} is
\* returned, and the script ends
NoData ==
    /\ pc = "loop"
    /\ i > Len(all_assets)
    /\ all_results = <<>>
    /\ returned' = Val(EmptyDict)
    /\ pc' = "done"
    /\ exit_status' = Val(0)
    /\ UNCHANGED <<environ, all_assets, i, calls, sim_log, console, all_results,
                   total_trades_all, total_wins_all, total_r_all, summary,
                   artifact, writes, collected, ref>>

\* the document is merged into the one on disk
WriteMerged(old, doc) ==
    IF old = PyNone THEN Val(doc)
    ELSE Val([doc EXCEPT !.by_asset = old[1].by_asset \o doc.by_asset])

\* lines 199-200: open(..., 'w') and json.dump: the document replaces the file
WriteArtifact(old, doc) == Val(doc)

\* lines 129-205: the sort, the combined metrics, the printed summary and the
\* artifact.  The exit breakdown divides by total_trades_all
\* (ZeroDivisionError) and the top 10 formats each win_rate with .1f
\* (TypeError for None): either ends the process with a traceback, before
\* the artifact is opened.
Summarize ==
    /\ pc = "loop"
    /\ i > Len(all_assets)
    /\ all_results # <<>>
    /\ LET ranked == SortByTotalR(all_results)
           metrics == CombinedMetrics(total_trades_all, total_wins_all, total_r_all)
       IN /\ collected' = all_results
          /\ all_results' = ranked
          /\ summary' = Val(metrics)
          /\ IF total_trades_all = 0
             THEN /\ pc' = "zero_division"
                  /\ exit_status' = Val(1)
                  /\ UNCHANGED <<artifact, writes, returned>>
             ELSE IF \E j \in 1..Len(Top10(ranked)) : Top10(ranked)[j].win_rate = PyNone
             THEN /\ pc' = "type_error"
                  /\ exit_status' = Val(1)
                  /\ UNCHANGED <<artifact, writes, returned>>
             ELSE /\ artifact' = WriteArtifact(artifact, OutputData(metrics, ranked))
                  /\ writes' = writes + 1
                  /\ returned' = Val(OutputData(metrics, ranked))
                  /\ pc' = "done"
                  /\ exit_status' = Val(0)
    /\ UNCHANGED <<environ, all_assets, i, calls, sim_log, console,
                   total_trades_all, total_wins_all, total_r_all, ref>>

Next ==
    \/ CheckCredentials
    \/ Iterate
    \/ NoData
    \/ Summarize

Spec == Init /\ [][Next]_vars

\* ------------------------------------------------------------ claims
Finished == pc \in {"done", "zero_division", "type_error"}

LoopOver == pc = "loop" /\ i > Len(all_assets)

Min(a, b) == IF a < b THEN a ELSE b

RECURSIVE SumUpTo(_, _)
\* f[1] + ... + f[n]
SumUpTo(f, n) == IF n = 0 THEN 0 ELSE f[n] + SumUpTo(f, n - 1)

\* the entries the loop collected, in the order it collected them
Collected == IF pc \in {"start", "exited", "loop"} \/ summary = PyNone
             THEN all_results ELSE collected

\* C1: an asset whose run_backtest call raises leaves the entries and the
\* totals what a run over the universe without it makes them, and the loop
\* goes on to simulate every asset after it.
C1_Isolation ==
    /\ pc = "loop" =>
          /\ Acc(all_results, total_trades_all, total_wins_all, total_r_all) = ref
          /\ calls = i - 1
    /\ (LoopOver \/ Finished) =>
          /\ Acc(Collected, total_trades_all, total_wins_all, total_r_all) = ref
          /\ calls = Len(all_assets)

C1_Witness ==
    /\ LoopOver
    /\ Len(sim_log) = 2
    /\ sim_log[1].raised
    /\ console = <<"error", "trades">>
    /\ Len(all_results) = 1

\* both credentials set and not empty, read off the environment
CredsPresent ==
    /\ {"OANDA_API_KEY", "OANDA_ACCOUNT_ID"} \subseteq DOMAIN environ
    /\ environ["OANDA_API_KEY"] # ""
    /\ environ["OANDA_ACCOUNT_ID"] # ""

\* C2: with a credential missing or empty the process exits non-zero before
\* any run_backtest call and before the artifact is written; with both set
\* the run proceeds, and a run whose only failures are per-asset errors ends
\* with exit status 0.
C2_CredentialGate ==
    /\ (~CredsPresent /\ pc # "start") =>
          /\ pc = "exited"
          /\ exit_status # PyNone /\ exit_status[1] # 0
          /\ calls = 0
          /\ writes = 0
          /\ artifact = Val(EarlierArtifact)
    /\ CredsPresent => pc # "exited"
    /\ (CredsPresent /\ (Finished \/ pc = "exited")
          /\ \A j \in 1..Len(all_results) : all_results[j].win_rate # PyNone) =>
          exit_status = Val(0)

C2_Witness ==
    /\ pc = "exited"
    /\ exit_status = Val(1)
    /\ DOMAIN environ = {"OANDA_API_KEY", "OANDA_ACCOUNT_ID"}
    /\ environ["OANDA_API_KEY"] = "key"
    /\ environ["OANDA_ACCOUNT_ID"] = ""

\* no asset of the universe yielded a result with total_trades > 0
AllZeroTrades ==
    \A p \in 1..Len(sim_log) :
        sim_log[p].total_trades = PyNone \/ sim_log[p].total_trades[1] <= 0

\* C3 as stated: in the all-zero-trades case the run completes, produces a
\* summary whose avg_win_rate and avg_r_per_trade are 0 and returns a "no
\* data" indication.
C3_Original ==
    (Finished /\ AllZeroTrades /\ all_assets # <<>>) =>
        /\ pc = "done"
        /\ returned = Val(EmptyDict)
        /\ summary # PyNone
        /\ summary[1].avg_win_rate.num = 0
        /\ summary[1].avg_r.num = 0

\* C3 as amended: in the all-zero-trades case nothing is collected, the run
\* completes with exit status 0 and returns the empty dict; it computes no
\* summary (so divides by nothing), keeps the three totals at 0 and writes
\* no artifact.
C3_NoData ==
    /\ (pc = "loop" /\ AllZeroTrades) =>
          /\ all_results = <<>>
          /\ total_trades_all = 0 /\ total_wins_all = 0 /\ total_r_all = 0
    /\ (Finished /\ AllZeroTrades) =>
          /\ pc = "done"
          /\ exit_status = Val(0)
          /\ returned = Val(EmptyDict)
          /\ summary = PyNone
          /\ total_trades_all = 0 /\ total_wins_all = 0 /\ total_r_all = 0
          /\ writes = 0
          /\ artifact = Val(EarlierArtifact)

C3_Witness ==
    /\ pc = "done"
    /\ Len(sim_log) = 2
    /\ sim_log[1].total_trades = Val(0)
    /\ sim_log[2].raised
    /\ returned = Val(EmptyDict)

\* ranked is a permutation of entries, by total_r descending, entries of
\* equal total_r in the order they have in entries
StableRanking(entries, ranked) ==
    /\ Len(ranked) = Len(entries)
    /\ \E p \in Permutations(1..Len(entries)) :
          /\ \A j \in 1..Len(ranked) : ranked[j] = entries[p[j]]
          /\ \A j, k \in 1..Len(ranked) :
                j < k => \/ ranked[j].total_r > ranked[k].total_r
                         \/ /\ ranked[j].total_r = ranked[k].total_r
                            /\ p[j] < p[k]

\* C4: after the sort all_results, and with it by_asset, is a permutation of
\* the collected entries, by total_r descending and stable; the top 10 are
\* the first min(10, n) of it.
C4_Ranking ==
    /\ (Finished /\ summary # PyNone) =>
          /\ StableRanking(collected, all_results)
          /\ Len(Top10(all_results)) = Min(TopK, Len(all_results))
          /\ \A j \in 1..Len(Top10(all_results)) : Top10(all_results)[j] = all_results[j]
          /\ writes = 1 =>
                /\ Len(artifact[1].by_asset) = Len(all_results)
                /\ \A j \in 1..Len(all_results) :
                      /\ artifact[1].by_asset[j].asset = all_results[j].asset
                      /\ artifact[1].by_asset[j].trades = all_results[j].trades
                      /\ artifact[1].by_asset[j].win_rate = all_results[j].win_rate
                      /\ artifact[1].by_asset[j].total_r = all_results[j].total_r
    /\ \A n \in 0..(TopK + 2) :
          Top10([j \in 1..n |-> j]) = [j \in 1..Min(TopK, n) |-> j]

C4_Witness ==
    /\ pc = "done"
    /\ writes = 1
    /\ Len(all_results) = 2
    /\ all_results[1].total_r = all_results[2].total_r
    /\ all_results[1] # all_results[2]
    /\ all_results = collected

\* the rr of a trade, 0 when the trade has none
RROrZero(t) == IF "rr" \in DOMAIN t THEN t["rr"] ELSE 0

\* the sum of the rr of the trades of a result
RRTotal(res) ==
    IF "trades" \in DOMAIN res /\ res["trades"] # PyNone
    THEN LET l == res["trades"][1]
         IN SumUpTo([j \in 1..Len(l) |-> RROrZero(l[j])], Len(l))
    ELSE 0

\* C5: at every point total_r_all is the sum of the entries' total_r,
\* total_trades_all the sum of their trades, and each entry's total_r the
\* sum of the rr of its asset's trades, an absent rr counting 0.
C5_Aggregation ==
    /\ total_r_all =
          SumUpTo([j \in 1..Len(all_results) |-> all_results[j].total_r], Len(all_results))
    /\ total_trades_all =
          SumUpTo([j \in 1..Len(all_results) |-> all_results[j].trades], Len(all_results))
    /\ \A j \in 1..Len(all_results) :
          all_results[j].total_r = RRTotal(all_results[j].full_result)
    /\ writes = 1 =>
          LET doc == artifact[1]
              n == Len(doc.by_asset)
          IN /\ doc.summary.total_r = SumUpTo([j \in 1..n |-> doc.by_asset[j].total_r], n)
             /\ doc.summary.total_trades = SumUpTo([j \in 1..n |-> doc.by_asset[j].trades], n)

C5_Witness ==
    /\ pc = "loop"
    /\ Len(all_results) = 2
    /\ all_results[1].full_result = [total_trades |-> 2, win_rate |-> Val(50),
                                     trades |-> Val(<<[rr |-> -1], EmptyDict>>)]
    /\ all_results[2].total_r = 4
    /\ total_r_all = 3
    /\ total_trades_all = 3

\* the universe positions whose call returned a result with total_trades > 0
Qualifying ==
    {p \in 1..Len(sim_log) :
        sim_log[p].total_trades # PyNone /\ sim_log[p].total_trades[1] > 0}

C7_Original ==
    (pc = "done" /\ all_assets # <<>>) =>
        /\ writes = 1
        /\ artifact = returned
        /\ artifact # Val(EarlierArtifact)

\* C7 as amended: a run that completes with at least one entry writes the
\* artifact exactly once, after the last asset, as the whole document of
\* that run; a run that completes with no entry, or that has not reached the
\* write, leaves the file as it found it.
C7_ArtifactWrite ==
    /\ writes <= 1
    /\ writes = 0 => artifact = Val(EarlierArtifact)
    /\ writes = 1 =>
          /\ pc = "done"
          /\ calls = Len(all_assets)
          /\ artifact = returned
          /\ artifact[1].generated_at = "this run"
          /\ Len(artifact[1].by_asset) = Len(all_results)
          /\ \A j \in 1..Len(all_results) :
                artifact[1].by_asset[j].asset = all_results[j].asset
          /\ artifact[1].summary.total_trades = total_trades_all
          /\ artifact[1].summary.total_r = total_r_all
    /\ pc = "done" => (writes = 1 <=> all_results # <<>>)

C7_Witness ==
    /\ pc = "done"
    /\ writes = 1
    /\ console = <<"error", "trades">>
    /\ artifact[1].generated_at = "this run"
    /\ Len(artifact[1].by_asset) = 1

\* C8: no division by zero: where the summary is computed all_results is
\* not empty and total_trades_all > 0, and the ZeroDivisionError of the exit
\* breakdown never happens.
C8_NoDivisionByZero ==
    /\ pc # "zero_division"
    /\ (LoopOver /\ all_results # <<>>) => total_trades_all > 0
    /\ summary # PyNone =>
          /\ all_results # <<>>
          /\ total_trades_all > 0
          /\ summary[1].avg_win_rate.den = total_trades_all
          /\ summary[1].avg_r.den = total_trades_all

C8_Witness ==
    /\ pc = "done"
    /\ summary # PyNone
    /\ console = <<"no_trades", "error">>
    /\ total_trades_all = 1

\* C9 as stated: an iteration that reports ERROR for its asset leaves
\* all_results and the three totals as they were before it.
C9_AllOrNothing ==
    [][(pc = "loop" /\ Len(console') = Len(console) + 1
          /\ console'[Len(console')] = "error")
        => /\ all_results' = all_results
           /\ total_trades_all' = total_trades_all
           /\ total_wins_all' = total_wins_all
           /\ total_r_all' = total_r_all]_vars

\* C10 as stated: total_wins_all never exceeds total_trades_all, so the
\* reported win rate lies between 0 and 100.
C10_WinRateIsPercentage ==
    /\ total_wins_all <= total_trades_all
    /\ summary # PyNone =>
          /\ 0 <= summary[1].avg_win_rate.num
          /\ summary[1].avg_win_rate.num <= 100 * summary[1].avg_win_rate.den

====
